---- MODULE Spec2Model ----
(***************************************************************************)
(* A model of gofig: configuration keys are declared in registrations,     *)
(* registrations are bound to a settings store (environment variables,     *)
(* flags, default documents), and views (root or scoped) read and write    *)
(* the store.                                                              *)
(*                                                                         *)
(* A Go string is a sequence of one-character strings, so that Split,      *)
(* ToUpper, ToLower and Sprintf("%s.%s") are computed, not assumed.        *)
(***************************************************************************)
EXTENDS Integers, Sequences, FiniteSets, TLC

VARIABLES
    reg,          \* the registration that Key is being called on (configReg)
    secureKeys,   \* the process-wide Secure Key Index (keys of the secureKeys map)
    keyPanic,     \* TRUE when the last call of Key panicked
    keyArgs,      \* history: the name parts passed for each key of reg, in order
    registrations, \* the process-wide list of registrations
    files,        \* the config files: [etc, usr], each a text (NoText: no file)
    environ,      \* the process environment: variable name -> value, for the set ones
    conf,         \* the config under study: [v: the settings store, flagSets]
    opts,         \* how conf was built: [loadGlobalConfig, loadUserConfig]
    result,       \* the last step taken and what the call returned
    lastSet,      \* history: key -> the value of the last Set of it
    docProvided,  \* history: key -> the value the last merged document gave it
    call,         \* the arguments of the last Set through a view: [view, key, val]
    copy,         \* the config c2 that conf.Copy() returned: [made, cfg, shared]
    enums,        \* the enumerations that calls of reg.Keys() started
    rwl,          \* registrationsRWL: [writer, readers]
    pc,           \* where each goroutine that registers or builds a config is
    local,        \* what each of those goroutines holds in its locals
    appended,     \* history: the registrations in the order their appends were made
    lines,        \* the lines of /etc/environment
    before        \* history: the environment as loadEtcEnvironment found it

keyVars == <<reg, keyPanic, keyArgs>>
storeVars == <<registrations, files, environ, conf, opts, result, lastSet, docProvided>>
vars == <<reg, secureKeys, keyPanic, keyArgs, registrations, files, environ, conf, opts,
          result, lastSet, docProvided, call, copy,
          enums, rwl, pc, local, appended, lines, before>>
auxVars == <<enums, rwl, pc, local, appended, lines, before>>

(***************************************************************************)
(* Strings                                                                 *)
(***************************************************************************)

\* The alphabet of declared names: a lower-case letter, an upper-case letter
\* and the separator.
Char == {"a", "B", "."}

\* Bounds of the model.
MaxNameLen == 3
MaxKeys == 1
MaxVal == 2

RECURSIVE StringsUpTo(_)
StringsUpTo(n) ==
    IF n = 0 THEN {<< >>}
    ELSE LET shorter == StringsUpTo(n - 1)
         IN  shorter \cup {Append(s, c) : s \in {t \in shorter : Len(t) = n - 1}, c \in Char}

ToUpperRune(c) ==
    CASE c = "a" -> "A"
      [] c = "b" -> "B"
      [] c = "c" -> "C"
      [] c = "d" -> "D"
      [] c = "e" -> "E"
      [] c = "k" -> "K"
      [] c = "s" -> "S"
      [] OTHER   -> c

ToLowerRune(c) ==
    CASE c = "A" -> "a"
      [] c = "B" -> "b"
      [] c = "C" -> "c"
      [] c = "D" -> "d"
      [] c = "E" -> "e"
      [] c = "K" -> "k"
      [] c = "S" -> "s"
      [] OTHER   -> c

ToUpper(s) == [i \in 1..Len(s) |-> ToUpperRune(s[i])]
ToLower(s) == [i \in 1..Len(s) |-> ToLowerRune(s[i])]

\* strings.Split(s, sep) for a one-character separator: n separators give
\* n + 1 parts, and the empty string gives one empty part.
RECURSIVE SplitFrom(_, _, _, _)
SplitFrom(s, sep, i, cur) ==
    IF i > Len(s) THEN <<cur>>
    ELSE IF s[i] = sep THEN <<cur>> \o SplitFrom(s, sep, i + 1, << >>)
    ELSE SplitFrom(s, sep, i + 1, Append(cur, s[i]))

Split(s, sep) == SplitFrom(s, sep, 1, << >>)

\* strings.Join(parts, sep); sep is a string.
RECURSIVE Join(_, _)
Join(parts, sep) ==
    IF Len(parts) = 0 THEN << >>
    ELSE IF Len(parts) = 1 THEN parts[1]
    ELSE parts[1] \o sep \o Join(Tail(parts), sep)

\* fmt.Sprintf("%s.%s", a, b)
Dot(a, b) == a \o <<".">> \o b

\* strings.Title: the first letter of every word is upper-cased; a word
\* starts at the beginning and after a separator rune.
IsSeparator(c) == c = "."
Title(s) ==
    [i \in 1..Len(s) |->
        IF i = 1 \/ IsSeparator(s[i - 1]) THEN ToUpperRune(s[i]) ELSE s[i]]

\* The first rune lower-cased, the rest unchanged (Key's loop over the
\* runes of the first segment).
LowerFirst(s) == [i \in 1..Len(s) |-> IF i = 1 THEN ToLowerRune(s[i]) ELSE s[i]]

(***************************************************************************)
(* Key registry                                                            *)
(***************************************************************************)

String == 0
\* Int of the source; the name Int is taken by the Integers module.
IntKey == 1
Bool == 2
SecureString == 3

\* toString of a name part that is a string.
toString(x) == x

newRegistration(name) == [name |-> name, yaml |-> << >>, keys |-> << >>]

\* secureKey: the lower-cased key name enters the Secure Key Index.
secureKey(index, rk) == index \cup {ToLower(rk.keyName)}

\* The flag name Key derives when fewer than two name parts are given.
DeriveFlagName(keyName) ==
    LET kp == Split(keyName, ".")
        np == [x \in 1..Len(kp) |-> IF x = 1 THEN LowerFirst(kp[x]) ELSE Title(kp[x])]
    IN  Join(np, << >>)

\* A slip in the derivation: only the first segment is upper-cased.
DeriveEnvVarNameFirstOnly(keyName) ==
    LET kp == Split(keyName, ".")
        np == [x \in 1..Len(kp) |-> IF x = 1 THEN ToUpper(kp[x]) ELSE kp[x]]
    IN  Join(np, <<"_">>)

\* The environment variable name Key derives when fewer than three name
\* parts are given.
DeriveEnvVarName(keyName) ==
    LET kp == Split(keyName, ".")
        np == [x \in 1..Len(kp) |-> ToUpper(kp[x])]
    IN  Join(np, <<"_">>)

\* configReg.Key as a function of the registration, the Secure Key Index
\* and the arguments: the registration and index it leaves, and whether it
\* panicked.
Key(r, index, keyType, short, defVal, desc, keys) ==
    LET lk == Len(keys) IN
    IF lk = 0
    THEN [reg |-> r, secure |-> index, panic |-> TRUE]
    ELSE
        LET keyName == toString(keys[1])
            flagName == IF lk < 2 THEN DeriveFlagName(keyName) ELSE toString(keys[2])
            envVarName == IF lk < 3 THEN DeriveEnvVarName(keyName) ELSE toString(keys[3])
            rk == [keyType |-> keyType, defVal |-> defVal, short |-> short,
                   desc |-> desc, keyName |-> keyName, flagName |-> flagName,
                   envVarName |-> envVarName]
        IN  [reg |-> [r EXCEPT !.keys = Append(@, rk)],
             secure |-> IF keyType = SecureString THEN secureKey(index, rk) ELSE index,
             panic |-> FALSE]

(***************************************************************************)
(* Values and documents                                                    *)
(*                                                                         *)
(* A value (Go interface{}) is a record with its dynamic type t: a scalar  *)
(* [t, n], a mapping [t |-> "map", m] whose m is a function from strings   *)
(* to values, or nil.  A document (the text of a config file, of a         *)
(* registration's YAML or of a reader) is [empty, malformed, tree]: the    *)
(* decoder either fails on it or gives its mapping.                        *)
(***************************************************************************)

Nil == [t |-> "nil"]
IntVal(n) == [t |-> "int", n |-> n]
FloatVal(n) == [t |-> "float64", n |-> n]
StrVal(n) == [t |-> "string", n |-> n]
MapVal(f) == [t |-> "map", m |-> f]
IsMap(x) == x.t = "map"
EmptyMap == << >>

NoText == [empty |-> TRUE, malformed |-> FALSE, tree |-> EmptyMap]
Text(tree) == [empty |-> FALSE, malformed |-> FALSE, tree |-> tree]
Malformed == [empty |-> FALSE, malformed |-> TRUE, tree |-> EmptyMap]

\* An io.Reader argument: nil, or a reader over a text.
NilReader == [nil |-> TRUE, text |-> NoText]
NewReader(text) == [nil |-> FALSE, text |-> text]

(***************************************************************************)
(* The settings store (viper.Viper), as gofig uses it: Set, BindEnv,       *)
(* BindPFlag, MergeConfig, Get, IsSet, AllKeys, AllSettings.  Keys are     *)
(* case-insensitive; a dotted key is looked up as it stands and then as a  *)
(* path into the mapping held under its first segment.                     *)
(***************************************************************************)

viperNew ==
    [override |-> EmptyMap, pflags |-> EmptyMap, env |-> EmptyMap,
     config |-> EmptyMap, defaults |-> EmptyMap]

\* Put(f, k, x): the Go statement f[k] = x.
Put(f, k, x) == [j \in DOMAIN f \cup {k} |-> IF j = k THEN x ELSE f[j]]

\* The keys of m that equal k up to case (a mapping never holds two).
KeysLike(m, k) == {j \in DOMAIN m : ToLower(j) = ToLower(k)}

RECURSIVE searchMap(_, _)
searchMap(source, path) ==
    IF Len(path) = 0 THEN MapVal(source)
    ELSE IF KeysLike(source, path[1]) = {} THEN Nil
    ELSE LET next == source[CHOOSE j \in KeysLike(source, path[1]) : TRUE]
         IN  IF IsMap(next) THEN searchMap(next.m, Tail(path))
             ELSE IF Len(path) = 1 THEN next
             ELSE Nil

\* The value of a flag as the store reads it.
FlagOf(cfg, ref) == cfg.flagSets[ref.fs][ref.name]

RECURSIVE find(_, _, _)
find(cfg, env, key) ==
    LET v == cfg.v
        path == Split(key, ".")
        source == IF Len(path) > 1 THEN find(cfg, env, path[1]) ELSE Nil
        nested == IF IsMap(source) THEN searchMap(source.m, Tail(path)) ELSE Nil
    IN  IF key \in DOMAIN v.override THEN v.override[key]
        ELSE IF key \in DOMAIN v.pflags /\ FlagOf(cfg, v.pflags[key]).changed
             THEN FlagOf(cfg, v.pflags[key]).value
        ELSE IF key \in DOMAIN v.env /\ v.env[key] \in DOMAIN env
             THEN env[v.env[key]]
        ELSE IF key \in DOMAIN v.config THEN v.config[key]
        ELSE IF nested # Nil THEN nested
        ELSE IF key \in DOMAIN v.defaults THEN v.defaults[key]
        ELSE Nil

vGet(cfg, env, k) == find(cfg, env, ToLower(k))
vIsSet(cfg, env, k) == vGet(cfg, env, k) # Nil
vSet(cfg, k, x) == [cfg EXCEPT !.v.override = Put(@, ToLower(k), x)]
vBindEnv(cfg, k, evn) == [cfg EXCEPT !.v.env = Put(@, ToLower(k), evn)]
vBindPFlag(cfg, k, ref) ==
    [cfg EXCEPT !.v.pflags = Put(@, ToLower(k), ref),
                !.v.defaults = Put(@, ToLower(k), FlagOf(cfg, ref).def)]

vAllKeys(cfg) ==
    DOMAIN cfg.v.defaults \cup DOMAIN cfg.v.pflags \cup DOMAIN cfg.v.env
        \cup DOMAIN cfg.v.config \cup DOMAIN cfg.v.override

vAllSettings(cfg, env) == [k \in vAllKeys(cfg) |-> vGet(cfg, env, k)]

\* The top-level keys of a decoded document are lower-cased.
insensitiviseMap(m) ==
    [k \in {ToLower(j) : j \in DOMAIN m} |-> m[CHOOSE j \in KeysLike(m, k) : TRUE]]

\* mergeMaps(src, tgt): tgt with src merged into it.  A key present in both
\* (up to case) keeps the target's spelling; two mappings are merged, a
\* value replaces one of its own type, and a value of another type is
\* dropped.
RECURSIVE mergeMaps(_, _)
mergeMaps(src, tgt) ==
    LET fresh == {sk \in DOMAIN src : KeysLike(tgt, sk) = {}}
        merged(tk) ==
            IF KeysLike(src, tk) = {} THEN tgt[tk]
            ELSE LET sv == src[CHOOSE sk \in KeysLike(src, tk) : TRUE]
                 IN  IF sv.t # tgt[tk].t THEN tgt[tk]
                     ELSE IF IsMap(sv) THEN MapVal(mergeMaps(sv.m, tgt[tk].m))
                     ELSE sv
    IN  [k \in DOMAIN tgt \cup fresh |-> IF k \in DOMAIN tgt THEN merged(k) ELSE src[k]]

\* MergeConfig(in): the decoder's error and an untouched store, or the
\* store with the document merged.  A nil reader is dereferenced.
vMergeConfig(cfg, in) ==
    IF in.nil THEN [cfg |-> cfg, err |-> FALSE, panic |-> TRUE]
    ELSE IF in.text.malformed THEN [cfg |-> cfg, err |-> TRUE, panic |-> FALSE]
    ELSE [cfg |-> [cfg EXCEPT !.v.config = mergeMaps(insensitiviseMap(in.text.tree), @)],
          err |-> FALSE, panic |-> FALSE]

(***************************************************************************)
(* config: construction, reading, writing                                  *)
(***************************************************************************)

\* A slip: the reader is handed to the store unchecked.
ReadConfigUnchecked(cfg, in) == vMergeConfig(cfg, in)

\* config.ReadConfig
ReadConfig(cfg, in) ==
    IF in.nil THEN [cfg |-> cfg, err |-> TRUE, panic |-> FALSE]
    ELSE vMergeConfig(cfg, in)

\* config.ReadConfigFile: a file that cannot be read is an error.
ReadConfigFile(cfg, file) ==
    IF file.empty THEN [cfg |-> cfg, err |-> TRUE, panic |-> FALSE]
    ELSE ReadConfig(cfg, NewReader(file))

\* The flag fs.String / fs.Int / fs.Bool declares for key k.
NewFlag(k) == [def |-> k.defVal, value |-> k.defVal, changed |-> FALSE]

\* r.name + " Flags"
FlagSetName(r) == r.name \o <<" ", "F", "l", "a", "g", "s">>

\* A slip: the environment variable of a key is not bound.
processKeyNoEnv(cfg, fsn, k) ==
    LET c1 == [cfg EXCEPT !.flagSets[fsn] = Put(@, k.flagName, NewFlag(k))]
    IN  vBindPFlag(c1, k.keyName, [fs |-> fsn, name |-> k.flagName])

\* The body of processRegistrations' loop over r.keys.
processKey(cfg, fsn, k) ==
    LET c1 == vBindEnv(cfg, k.keyName, k.envVarName)
        c2 == [c1 EXCEPT !.flagSets[fsn] = Put(@, k.flagName, NewFlag(k))]
    IN  vBindPFlag(c2, k.keyName, [fs |-> fsn, name |-> k.flagName])

RECURSIVE processKeys(_, _, _)
processKeys(cfg, fsn, keys) ==
    IF Len(keys) = 0 THEN cfg
    ELSE processKeys(processKey(cfg, fsn, keys[1]), fsn, Tail(keys))

\* The body of processRegistrations' loop over registrations.
processRegistration(cfg, r) ==
    LET fsn == FlagSetName(r)
        c1 == [cfg EXCEPT !.flagSets = Put(@, fsn, EmptyMap)]
        c2 == processKeys(c1, fsn, r.keys)
    IN  IF r.yaml.empty THEN c2 ELSE ReadConfig(c2, NewReader(r.yaml)).cfg

RECURSIVE processRegistrations(_, _)
processRegistrations(cfg, regs) ==
    IF Len(regs) = 0 THEN cfg
    ELSE processRegistrations(processRegistration(cfg, regs[1]), Tail(regs))

\* newConfigWithOptions: fs is the file system, [etc, usr], each the text of
\* the config file there (NoText when there is no such file).
newConfigWithOptions(regs, fs, loadGlobalConfig, loadUserConfig) ==
    LET c0 == [v |-> viperNew, flagSets |-> EmptyMap]
        c1 == processRegistrations(c0, regs)
        c2 == IF loadGlobalConfig /\ ~fs.etc.empty
              THEN ReadConfigFile(c1, fs.etc).cfg ELSE c1
    IN  IF loadUserConfig /\ ~fs.usr.empty
        THEN ReadConfigFile(c2, fs.usr).cfg ELSE c2

newConfig(regs, fs) == newConfigWithOptions(regs, fs, TRUE, TRUE)

\* config.Get, config.IsSet, config.Set
Get(cfg, env, k) == vGet(cfg, env, k)
IsSet(cfg, env, k) == vIsSet(cfg, env, k)
Set(cfg, k, x) == vSet(cfg, k, x)

(***************************************************************************)
(* Properties of the key registry                                          *)
(***************************************************************************)

\* C7: a key declared with fewer than three name parts has the environment
\* variable name that is its key name with every '.' replaced by '_' and
\* every other rune upper-cased (the key name split on '.', the segments
\* upper-cased and joined with '_'); a key declared with three name parts
\* has the third part, verbatim.
C7_EnvVarNameDerived ==
    \A i \in 1..Len(reg.keys) :
        LET k == reg.keys[i] IN
        IF Len(keyArgs[i]) < 3
        THEN /\ Len(k.envVarName) = Len(k.keyName)
             /\ \A j \in 1..Len(k.keyName) :
                    k.envVarName[j] =
                        IF k.keyName[j] = "." THEN "_" ELSE ToUpperRune(k.keyName[j])
        ELSE k.envVarName = keyArgs[i][3]

\* A key of two segments with a lower-case rune in the second one was
\* declared by its key name alone.
C7_Witness ==
    \E i \in 1..Len(reg.keys) :
        /\ Len(keyArgs[i]) = 1
        /\ reg.keys[i].keyName = <<"B", ".", "a">>
        /\ reg.keys[i].envVarName = <<"B", "_", "A">>

\* C10: every key of the registration, and every name of the Secure Key
\* Index, has a non-empty key name.
C10_KeyNameNeverEmpty ==
    /\ \A i \in 1..Len(reg.keys) : reg.keys[i].keyName # << >>
    /\ << >> \notin secureKeys

(***************************************************************************)
(* Settings, keys and export                                               *)
(***************************************************************************)

\* flattenMapKeys: the leaves of m as pairs <<lower-cased dotted path, value>>
\* (the entries of the map flat that the function fills).
RECURSIVE flattenMapKeys(_, _)
flattenMapKeys(prefix, m) ==
    UNION {LET kk == Dot(prefix, k)
           IN  IF IsMap(m[k]) THEN flattenMapKeys(kk, m[k].m)
               ELSE {<<ToLower(kk), m[k]>>} : k \in DOMAIN m}

\* flattenArrayKeys: the dotted paths of the leaves of m, in their own case.
RECURSIVE flattenArrayKeys(_, _)
flattenArrayKeys(prefix, m) ==
    UNION {LET kk == Dot(prefix, k)
           IN  IF IsMap(m[k]) THEN flattenArrayKeys(kk, m[k].m) ELSE {kk} :
           k \in DOMAIN m}

\* A slip: no flat entry is ever dropped.
allSettingsKeepingFlat(cfg, env) ==
    LET all == vAllSettings(cfg, env)
    IN  [k \in {j \in DOMAIN all : all[j] # Nil} |-> all[k]]

\* config.allSettings: the store's settings without the nil ones and
\* without the flat entries that a mapping repeats with an equal value.
allSettings(cfg, env) ==
    LET all == vAllSettings(cfg, env)
        ms == {k \in DOMAIN all : IsMap(all[k])}
        as == {k \in DOMAIN all : all[k] # Nil /\ ~IsMap(all[k])}
        duplicate(fk) ==
            \E msk \in ms : <<fk, all[fk]>> \in flattenMapKeys(msk, all[msk].m)
    IN  [k \in {fk \in as : ~duplicate(fk)} \cup ms |-> all[k]]

\* config.AllKeys: the entries of the returned list, each with the
\* top-level setting it was listed for.
AllKeys(cfg, env) ==
    LET as == allSettings(cfg, env)
    IN  UNION {IF as[k] = Nil THEN {}
               ELSE IF IsMap(as[k])
               THEN {[of |-> k, key |-> kk] : kk \in flattenArrayKeys(k, as[k].m)}
               ELSE {[of |-> k, key |-> k]} : k \in DOMAIN as}

\* json.Marshal of a value, and json.Unmarshal into interface{}: a JSON
\* number comes back as a float64, an object as a map[string]interface{}.
RECURSIVE jsonMarshal(_)
jsonMarshal(x) ==
    IF IsMap(x) THEN [t |-> "object", m |-> [k \in DOMAIN x.m |-> jsonMarshal(x.m[k])]]
    ELSE IF x.t \in {"int", "float64"} THEN [t |-> "number", n |-> x.n]
    ELSE IF x.t = "nil" THEN [t |-> "null"]
    ELSE x

RECURSIVE jsonUnmarshal(_)
jsonUnmarshal(j) ==
    IF j.t = "object" THEN MapVal([k \in DOMAIN j.m |-> jsonUnmarshal(j.m[k])])
    ELSE IF j.t = "number" THEN FloatVal(j.n)
    ELSE IF j.t = "null" THEN Nil
    ELSE j

\* A slip: the key is looked up in the index as it is spelled.
isSecureKeyAsSpelled(index, k) == k \in index

\* isSecureKey
isSecureKey(index, k) == ToLower(k) \in index

\* deleteSecureValues(prefix, m): m as the function leaves it.
RECURSIVE deleteSecureValues(_, _, _)
deleteSecureValues(index, prefix, m) ==
    LET kk(k) == IF prefix = << >> THEN k ELSE Dot(prefix, k)
    IN  [k \in {j \in DOMAIN m : ~isSecureKey(index, kk(j))} |->
            IF IsMap(m[k]) THEN MapVal(deleteSecureValues(index, kk(k), m[k].m))
            ELSE m[k]]

\* config.allSecureSettings
allSecureSettings(cfg, env, index) ==
    LET m == jsonUnmarshal(jsonMarshal(MapVal(allSettings(cfg, env))))
    IN  deleteSecureValues(index, << >>, m.m)

\* config.marshalJSON(secure) and marshalIndentJSON(secure): the JSON
\* document; the two differ in white space only.
marshalJSON(cfg, env, index, secure) ==
    jsonMarshal(MapVal(IF secure THEN allSecureSettings(cfg, env, index)
                       ELSE allSettings(cfg, env)))
marshalIndentJSON(cfg, env, index, secure) == marshalJSON(cfg, env, index, secure)

ToJSON(cfg, env, index) == marshalIndentJSON(cfg, env, index, TRUE)
ToJSONCompact(cfg, env, index) == marshalJSON(cfg, env, index, TRUE)
MarshalJSON(cfg, env, index) == marshalJSON(cfg, env, index, TRUE)

\* for k, v := range m { c.v.Set(k, v) }
RECURSIVE SetAll(_, _, _)
SetAll(cfg, m, todo) ==
    IF todo = {} THEN cfg
    ELSE LET k == CHOOSE j \in todo : TRUE
         IN  SetAll(Set(cfg, k, m[k]), m, todo \ {k})

\* A slip: the settings of the document are not Set on the new config.
FromJSONSettingNothing(regs, fsys, from) == newConfig(regs, fsys)

\* FromJSON(from)
FromJSON(regs, fsys, from) ==
    LET m == jsonUnmarshal(from).m
    IN  SetAll(newConfig(regs, fsys), m, DOMAIN m)

\* config.Copy: a new config with every setting of cfg Set on it.
Copy(cfg, env, regs, fsys) ==
    LET m == vAllSettings(cfg, env)
    IN  SetAll(newConfig(regs, fsys), m, DOMAIN m)

\* The settings whose value is a mapping that the store of cfg holds itself:
\* Copy hands that value to Set as it got it, a Go map, not a copy of one.
HeldMappings(cfg, env) ==
    {k \in DOMAIN cfg.v.config :
        /\ IsMap(cfg.v.config[k])
        /\ k \notin DOMAIN cfg.v.override
        /\ vGet(cfg, env, k) = cfg.v.config[k]}

(***************************************************************************)
(* Views.  A view is the sequence of its scopes, the outermost first: the  *)
(* root is << >>, and root.Scope(s1)...Scope(sn) is <<s1, ..., sn>>, a     *)
(* scopedConfig whose scope is sn and whose c (its parent) is the view     *)
(* <<s1, ..., s(n-1)>>.                                                    *)
(***************************************************************************)

Scope(view, scope) == Append(view, scope)
Parent(view) == SubSeq(view, 1, Len(view) - 1)
ScopeOf(view) == view[Len(view)]

\* config.IsSet and scopedConfig.IsSet
RECURSIVE viewIsSet(_, _, _, _)
viewIsSet(cfg, env, view, k) ==
    IF view = << >> THEN IsSet(cfg, env, k)
    ELSE IF viewIsSet(cfg, env, Parent(view), Dot(ScopeOf(view), k)) THEN TRUE
    ELSE viewIsSet(cfg, env, Parent(view), k)

\* config.Get and scopedConfig.Get
RECURSIVE viewGet(_, _, _, _)
viewGet(cfg, env, view, k) ==
    IF view = << >> THEN Get(cfg, env, k)
    ELSE LET sk == Dot(ScopeOf(view), k)
         IN  IF viewIsSet(cfg, env, Parent(view), sk)
             THEN viewGet(cfg, env, Parent(view), sk)
             ELSE viewGet(cfg, env, Parent(view), k)

\* A slip: the value is written under the scope and also on the parent.
RECURSIVE viewSetAlsoParent(_, _, _, _)
viewSetAlsoParent(cfg, view, k, x) ==
    IF view = << >> THEN Set(cfg, k, x)
    ELSE viewSetAlsoParent(viewSetAlsoParent(cfg, Parent(view), k, x),
                           Parent(view), Dot(ScopeOf(view), k), x)

\* config.Set and scopedConfig.Set
RECURSIVE viewSet(_, _, _, _)
viewSet(cfg, view, k, x) ==
    IF view = << >> THEN Set(cfg, k, x)
    ELSE viewSet(cfg, Parent(view), Dot(ScopeOf(view), k), x)

\* config.ToJSON, ToJSONCompact, MarshalJSON and those of scopedConfig,
\* which hand the call to the parent.
RECURSIVE viewToJSON(_, _, _, _)
viewToJSON(cfg, env, index, view) ==
    IF view = << >> THEN ToJSON(cfg, env, index)
    ELSE viewToJSON(cfg, env, index, Parent(view))
RECURSIVE viewToJSONCompact(_, _, _, _)
viewToJSONCompact(cfg, env, index, view) ==
    IF view = << >> THEN ToJSONCompact(cfg, env, index)
    ELSE viewToJSONCompact(cfg, env, index, Parent(view))
RECURSIVE viewMarshalJSON(_, _, _, _)
viewMarshalJSON(cfg, env, index, view) ==
    IF view = << >> THEN MarshalJSON(cfg, env, index)
    ELSE viewMarshalJSON(cfg, env, index, Parent(view))

\* The views of the model: the root and scopings of it by a and b, one,
\* two and three deep.
Views ==
    {<< >>, <<<<"a">>>>, <<<<"b">>>>, <<<<"a">>, <<"b">>>>,
     <<<<"a">>, <<"b">>, <<"a">>>>}

(***************************************************************************)
(* Declaring keys                                                          *)
(***************************************************************************)

\* The names a caller declares, the explicit flag name and the explicit
\* environment variable name it may pass as second and third name part.
DeclaredNames == StringsUpTo(MaxNameLen)
ExplicitFlagName == <<"a", "B">>
ExplicitEnvVarName == <<"a", ".", "B">>
\* The types keys are declared with: Key treats every type that is not
\* SecureString alike.
DeclaredTypes == {String, SecureString}
NameParts ==
    {<< >>}
    \cup {<<n>> : n \in DeclaredNames}
    \cup {<<n, ExplicitFlagName>> : n \in DeclaredNames}
    \cup {<<n, ExplicitFlagName, ExplicitEnvVarName>> : n \in DeclaredNames}

\* The state of the parts of the program a specification leaves aside.
NoResult == [op |-> "none", in |-> "none", err |-> FALSE, panic |-> FALSE]
NoCall == [view |-> << >>, key |-> << >>, val |-> Nil]
NoCopy == [made |-> FALSE, cfg |-> [v |-> viperNew, flagSets |-> EmptyMap], shared |-> {}]
IdleAux ==
    /\ enums = << >>
    /\ rwl = [writer |-> FALSE, readers |-> 0]
    /\ pc = << >>
    /\ local = << >>
    /\ appended = << >>
    /\ lines = << >>
    /\ before = << >>
IdleKey ==
    /\ reg = newRegistration(<<"a">>)
    /\ keyPanic = FALSE
    /\ keyArgs = << >>
IdleStore ==
    /\ registrations = << >>
    /\ files = [etc |-> NoText, usr |-> NoText]
    /\ environ = EmptyMap
    /\ conf = [v |-> viperNew, flagSets |-> EmptyMap]
    /\ opts = [loadGlobalConfig |-> FALSE, loadUserConfig |-> FALSE]
    /\ result = NoResult
    /\ lastSet = EmptyMap
    /\ docProvided = EmptyMap

InitKey ==
    /\ reg = newRegistration(<<"a">>)
    /\ secureKeys = {}
    /\ keyPanic = FALSE
    /\ keyArgs = << >>
    /\ IdleStore
    /\ call = NoCall
    /\ copy = NoCopy
    /\ IdleAux

\* r.Key(keyType, "", defVal, "", keys...)
DeclareKey ==
    /\ ~keyPanic
    /\ Len(reg.keys) < MaxKeys
    /\ \E keyType \in DeclaredTypes, keys \in NameParts :
         LET out == Key(reg, secureKeys, keyType, << >>, 0, << >>, keys)
         IN  /\ reg' = out.reg
             /\ secureKeys' = out.secure
             /\ keyPanic' = out.panic
             /\ keyArgs' = IF out.panic THEN keyArgs ELSE Append(keyArgs, keys)
    /\ UNCHANGED <<auxVars, storeVars, call, copy>>

NextKey == DeclareKey

SpecKey == InitKey /\ [][NextKey]_vars

(***************************************************************************)
(* A config and its sources                                                *)
(***************************************************************************)

KeyAB == <<"a", ".", "b">>
KeyACS == <<"a", ".", "c", ".", "S">>
KeyD == <<"d">>

\* The default document of the registration, the global config file, and
\* the documents a caller reads into the config.
RegYAML ==
    Text(<<"a">> :> MapVal(<<"b">> :> IntVal(7)
                           @@ <<"c">> :> MapVal(<<"S">> :> StrVal(2))))
EtcFile == Text(<<"a">> :> MapVal(<<"b">> :> IntVal(8)))
DocB == Text(<<"A">> :> MapVal(<<"B">> :> IntVal(9)))
DocS == Text(<<"a">> :> MapVal(<<"c">> :> MapVal(<<"s">> :> StrVal(4)))
             @@ KeyD :> IntVal(6))
Readers == {NilReader, NewReader(Malformed), NewReader(DocB), NewReader(DocS)}
ReaderKind(in) ==
    IF in.nil THEN "nil" ELSE IF in.text.malformed THEN "malformed" ELSE "document"

\* A registration as a subsystem writes it: an Int key and a SecureString
\* key below the same mapping, and a default document or none.
testReg(yaml) ==
    LET r0 == [newRegistration(<<"r">>) EXCEPT !.yaml = yaml]
        k1 == Key(r0, {}, IntKey, << >>, IntVal(0), << >>, <<KeyAB>>)
    IN  Key(k1.reg, k1.secure, SecureString, << >>, StrVal(0), << >>, <<KeyACS>>)

\* The keys callers Set: the declared ones, one also in another case.
SetKeys == {KeyAB, <<"A", ".", "B">>, KeyACS}

\* What a document gives for a key: the value at the key's path.
ProvidedBy(text, k) == searchMap(text.tree, Split(k, "."))
NoteDoc(dp, text, names) ==
    IF text.empty \/ text.malformed THEN dp
    ELSE LET given == {k \in names : ProvidedBy(text, k) # Nil}
         IN  [k \in DOMAIN dp \cup given |->
                 IF k \in given THEN ProvidedBy(text, k) ELSE dp[k]]

KeyNames(regs) ==
    {ToLower(regs[i].keys[j].keyName) : i \in 1..Len(regs), j \in {1, 2}}

InitStore ==
    /\ IdleKey
    /\ \E yaml \in {NoText, RegYAML}, load \in BOOLEAN :
         LET tr == testReg(yaml)
             regs == <<tr.reg>>
             etc == EtcFile
             fsys == [etc |-> etc, usr |-> NoText]
         IN  /\ registrations = regs
             /\ secureKeys = tr.secure
             /\ files = fsys
             /\ opts = [loadGlobalConfig |-> load, loadUserConfig |-> load]
             /\ conf = newConfigWithOptions(regs, fsys, load, load)
             /\ docProvided =
                    NoteDoc(NoteDoc(EmptyMap, yaml, KeyNames(regs)),
                            IF load THEN etc ELSE NoText, KeyNames(regs))
    /\ environ = EmptyMap
    /\ result = NoResult
    /\ lastSet = EmptyMap
    /\ call = NoCall
    /\ copy = NoCopy
    /\ IdleAux

Step(op) == [op |-> op, in |-> "none", err |-> FALSE, panic |-> FALSE]
Returned(op, kind, out) ==
    [op |-> op, in |-> kind, err |-> out.err, panic |-> out.panic]

\* conf.Set(k, n)
StoreSet ==
    /\ ~result.panic
    /\ \E k \in SetKeys, n \in 1..MaxVal :
         /\ conf' = Set(conf, k, IntVal(n))
         /\ lastSet' = Put(lastSet, ToLower(k), IntVal(n))
    /\ result' = Step("Set")
    /\ UNCHANGED <<auxVars, call, copy, keyVars, secureKeys, registrations, files, environ, opts, docProvided>>

\* conf.ReadConfig(in)
StoreReadConfig ==
    /\ ~result.panic
    /\ \E in \in Readers :
         LET out == ReadConfig(conf, in)
         IN  /\ conf' = out.cfg
             /\ result' = Returned("ReadConfig", ReaderKind(in), out)
             /\ docProvided' =
                    IF out.err \/ out.panic THEN docProvided
                    ELSE NoteDoc(docProvided, in.text, KeyNames(registrations))
    /\ UNCHANGED <<auxVars, call, copy, keyVars, secureKeys, registrations, files, environ, opts, lastSet>>

\* The environment variable that is set and unset, and the flag the
\* command line supplies: those of the key a.b.
EnvNames == {<<"A", "_", "B">>}
FlagNames == {<<"a", "B">>}

\* os.Setenv(name, value) with a non-empty value, by anyone in the process.
Setenv ==
    /\ ~result.panic
    /\ \E name \in EnvNames : environ' = Put(environ, name, StrVal(1))
    /\ result' = Step("Setenv")
    /\ UNCHANGED <<auxVars, call, copy, keyVars, secureKeys, registrations, files, conf, opts,
                   lastSet, docProvided>>

\* os.Unsetenv(name)
Unsetenv ==
    /\ ~result.panic
    /\ \E name \in DOMAIN environ :
         environ' = [j \in DOMAIN environ \ {name} |-> environ[j]]
    /\ result' = Step("Unsetenv")
    /\ UNCHANGED <<auxVars, call, copy, keyVars, secureKeys, registrations, files, conf, opts,
                   lastSet, docProvided>>

\* The value a flag takes when the command line supplies it: of the type
\* of the value it replaces.
Parsed(old) == [old EXCEPT !.n = 5]

\* Parsing a command line that supplies the flag (pflag, outside gofig).
ParseFlag ==
    /\ ~result.panic
    /\ \E fsn \in DOMAIN conf.flagSets :
         \E name \in DOMAIN conf.flagSets[fsn] \cap FlagNames :
            conf' = [conf EXCEPT !.flagSets[fsn][name] =
                        [@ EXCEPT !.changed = TRUE, !.value = Parsed(@)]]
    /\ result' = Step("ParseFlag")
    /\ UNCHANGED <<auxVars, call, copy, keyVars, secureKeys, registrations, files, environ, opts,
                   lastSet, docProvided>>

NextStore == StoreSet \/ StoreReadConfig \/ Setenv \/ Unsetenv \/ ParseFlag

SpecStore == InitStore /\ [][NextStore]_vars

(***************************************************************************)
(* Properties of the store                                                 *)
(***************************************************************************)

\* The keys of the registrations, each with the flag set of its registration.
RegKeys ==
    {[fsn |-> FlagSetName(registrations[i]), k |-> registrations[i].keys[j]] :
        i \in 1..Len(registrations), j \in {1, 2}}

FlagFor(rk) == conf.flagSets[rk.fsn][rk.k.flagName]

\* What the precedence order gives for a declared key, from what was
\* supplied: the last Set, the flag if the command line supplied it, the
\* environment variable if set, the last document value, the default.
Expected(rk) ==
    LET name == ToLower(rk.k.keyName) IN
    IF name \in DOMAIN lastSet THEN lastSet[name]
    ELSE IF FlagFor(rk).changed THEN FlagFor(rk).value
    ELSE IF rk.k.envVarName \in DOMAIN environ THEN environ[rk.k.envVarName]
    ELSE IF name \in DOMAIN docProvided THEN docProvided[name]
    ELSE rk.k.defVal

\* C1: Get of a declared key gives the Set value, else the supplied flag's
\* value, else the bound environment variable's value, else the value the
\* documents provide, else the static default, in whatever order the
\* sources were supplied.
C1_Precedence == \A rk \in RegKeys : Get(conf, environ, rk.k.keyName) = Expected(rk)

\* All four sources of the key a.b are present, a document was merged
\* last, and Get gives the Set value.
C1_Witness ==
    /\ ToLower(KeyAB) \in DOMAIN lastSet
    /\ ToLower(KeyAB) \in DOMAIN docProvided
    /\ <<"A", "_", "B">> \in DOMAIN environ
    /\ \E rk \in RegKeys : rk.k.keyName = KeyAB /\ FlagFor(rk).changed
    /\ result.op = "ReadConfig" /\ result.in = "document"
    /\ Get(conf, environ, KeyAB) = lastSet[ToLower(KeyAB)]

\* The keys a caller may ask for.
ProbeKeys ==
    SetKeys \cup {KeyD, <<"a">>, <<"a", ".", "c">>, <<"a", ".", "B">>,
                  <<"a", ".", "c", ".", "s">>, <<"b">>}

\* C8: a ReadConfig with a nil reader or a malformed document returns an
\* error, does not panic, and leaves every key resolving as before.
C8_FailedReadKeepsStore ==
    [][(result'.op = "ReadConfig" /\ result'.in \in {"nil", "malformed"})
        => /\ result'.err
           /\ ~result'.panic
           /\ \A k \in ProbeKeys :
                /\ Get(conf', environ', k) = Get(conf, environ, k)
                /\ IsSet(conf', environ', k) = IsSet(conf, environ, k)]_vars

\* A malformed document was read into a store that holds merged documents
\* and a Set value, and the call returned an error.
C8_Witness ==
    /\ result.op = "ReadConfig" /\ result.in = "malformed" /\ result.err
    /\ DOMAIN conf.v.config # {}
    /\ DOMAIN conf.v.override # {}

(***************************************************************************)
(* Properties of settings and export                                       *)
(***************************************************************************)

\* The dotted paths of all entries of a JSON object, at every depth.
RECURSIVE EntryPaths(_, _)
EntryPaths(prefix, obj) ==
    UNION {LET kk == IF prefix = << >> THEN k ELSE Dot(prefix, k)
           IN  {kk} \cup (IF obj[k].t = "object" THEN EntryPaths(kk, obj[k].m) ELSE {}) :
           k \in DOMAIN obj}

\* The leaves of a mapping: <<dotted path, value>>.
RECURSIVE Leaves(_, _)
Leaves(prefix, m) ==
    UNION {IF IsMap(m[k]) THEN Leaves(Dot(prefix, k), m[k].m)
           ELSE {<<Dot(prefix, k), m[k]>>} : k \in DOMAIN m}

\* The leaves that the nested mappings of the settings as report.
NestedLeaves(as) ==
    UNION {IF IsMap(as[k]) THEN Leaves(k, as[k].m) ELSE {} : k \in DOMAIN as}

\* The top-level entries of the settings as that are not mappings.
FlatEntries(as) == {k \in DOMAIN as : ~IsMap(as[k])}

\* C5 as claimed: no setting is reported both as a flat entry and as a leaf
\* of a mapping, and AllKeys lists no key twice (keys compared up to case).
C5_NeverReportedTwice ==
    LET as == allSettings(conf, environ) IN
    /\ \A fk \in FlatEntries(as) :
          \A leaf \in NestedLeaves(as) : ToLower(leaf[1]) # ToLower(fk)
    /\ \A e1, e2 \in AllKeys(conf, environ) :
          ToLower(e1.key) = ToLower(e2.key) => e1 = e2

\* C5 as amended: no setting is reported both as a flat entry and as a leaf
\* of a mapping with the same value, and a key that AllKeys lists twice is
\* listed once for a flat entry and once for a leaf of another value.
C5_NeverReportedTwiceWithOneValue ==
    LET as == allSettings(conf, environ) IN
    /\ \A fk \in FlatEntries(as) :
          \A leaf \in NestedLeaves(as) :
             ToLower(leaf[1]) = ToLower(fk) => leaf[2] # as[fk]
    /\ \A e1, e2 \in AllKeys(conf, environ) :
          (ToLower(e1.key) = ToLower(e2.key) /\ e1 # e2)
             => \E fe \in {e1, e2}, ne \in {e1, e2} :
                   /\ fe.of \in FlatEntries(as) /\ IsMap(as[ne.of])
                   /\ \A leaf \in Leaves(ne.of, as[ne.of].m) :
                         leaf[1] = ne.key => leaf[2] # as[fe.of]

\* The store reports the key a.b flat and, with the same value, in the
\* mapping a; the settings hold it in the mapping only.
C5_Witness ==
    LET all == vAllSettings(conf, environ)
        as == allSettings(conf, environ)
    IN  /\ ToLower(KeyAB) \in DOMAIN all
        /\ <<"a">> \in DOMAIN all /\ IsMap(all[<<"a">>])
        /\ \E leaf \in Leaves(<<"a">>, all[<<"a">>].m) :
              ToLower(leaf[1]) = ToLower(KeyAB) /\ leaf[2] = all[ToLower(KeyAB)]
        /\ ToLower(KeyAB) \notin DOMAIN as
        /\ \E leaf \in NestedLeaves(as) : ToLower(leaf[1]) = ToLower(KeyAB)

\* The config FromJSON builds from the compact JSON of conf.
RoundTrip == FromJSON(registrations, files, ToJSONCompact(conf, environ, secureKeys))

\* A key that is neither in the Secure Key Index nor below a path in it.
RECURSIVE Prefixes(_)
Prefixes(path) ==
    IF Len(path) = 0 THEN {} ELSE {Join(path, <<".">>)} \cup Prefixes(SubSeq(path, 1, Len(path) - 1))
NonSecure(k) == \A pre \in Prefixes(Split(k, ".")) : ToLower(pre) \notin secureKeys

ThroughJSON(x) == IF x.t = "int" THEN FloatVal(x.n) ELSE x

C3_SecureKeysNeverExported ==
    \A view \in Views :
       \A out \in {viewToJSON(conf, environ, secureKeys, view),
                   viewToJSONCompact(conf, environ, secureKeys, view),
                   viewMarshalJSON(conf, environ, secureKeys, view)} :
          \A p \in EntryPaths(<< >>, out.m) : NonSecure(p)

\* The settings hold the secure key a.c.S twice, as a flat entry that a Set
\* made and, with another value, in the mapping a.c that a document gave
\* below the mapping a, which is not secure and is exported.
C3_Witness ==
    LET as == allSettings(conf, environ)
        out == ToJSON(conf, environ, secureKeys)
    IN  /\ ToLower(KeyACS) \in secureKeys
        /\ ToLower(KeyACS) \in FlatEntries(as)
        /\ \E leaf \in NestedLeaves(as) :
              ToLower(leaf[1]) = ToLower(KeyACS) /\ leaf[2] # as[ToLower(KeyACS)]
        /\ <<"a">> \in DOMAIN out.m
        /\ <<"a", ".", "b">> \in EntryPaths(<< >>, out.m)

(***************************************************************************)
(* Scoped views over a store                                               *)
(***************************************************************************)

\* The key callers ask a view for, and the global config file of the store.
ViewKeys == {<<"k">>}
ViewEtc == Text(<<"a">> :> MapVal(<<"k">> :> IntVal(7)))

InitView ==
    /\ IdleKey
    /\ secureKeys = {}
    /\ registrations = << >>
    /\ \E etc \in {NoText, ViewEtc} :
         /\ files = [etc |-> etc, usr |-> NoText]
         /\ conf = newConfig(<< >>, files)
    /\ opts = [loadGlobalConfig |-> TRUE, loadUserConfig |-> TRUE]
    /\ environ = EmptyMap
    /\ result = NoResult
    /\ lastSet = EmptyMap
    /\ docProvided = EmptyMap
    /\ call = NoCall
    /\ copy = NoCopy
    /\ IdleAux

\* view.Set(k, n), view being conf.Scope(s1)...Scope(sn)
ViewSet ==
    /\ \E view \in Views, k \in ViewKeys, n \in 1..MaxVal :
         /\ conf' = viewSet(conf, view, k, IntVal(n))
         /\ call' = [view |-> view, key |-> k, val |-> IntVal(n)]
    /\ result' = Step("ViewSet")
    /\ UNCHANGED <<auxVars, keyVars, secureKeys, registrations, files, environ, opts,
                   lastSet, docProvided, copy>>

NextView == ViewSet

SpecView == InitView /\ [][NextView]_vars

\* The store key of k under the scopes of a view: s1.s2...sn.k.
RECURSIVE ScopedKey(_, _)
ScopedKey(view, k) ==
    IF view = << >> THEN k ELSE ScopedKey(Parent(view), Dot(ScopeOf(view), k))

\* The parent chain of k on a view, most specific first.
RECURSIVE Chain(_, _)
Chain(view, k) ==
    IF view = << >> THEN <<k>>
    ELSE <<ScopedKey(view, k)>> \o Chain(Parent(view), k)

\* The value of the first key of the chain that is set, nil when none is.
RECURSIVE FirstSet(_, _, _)
FirstSet(cfg, env, chain) ==
    IF Len(chain) = 0 THEN Nil
    ELSE IF IsSet(cfg, env, chain[1]) THEN Get(cfg, env, chain[1])
    ELSE FirstSet(cfg, env, Tail(chain))

\* C2: Get(k) on the view of scopes s1, ..., sn is the value of the first of
\* s1...sn.k, s1...s(n-1).k, ..., s1.k, k that is set, and nil when none is.
C2_ParentChainOnly ==
    \A view \in Views, k \in ViewKeys :
       viewGet(conf, environ, view, k) = FirstSet(conf, environ, Chain(view, k))

\* The store keys the views of the model read and write, and the mapping a.
ViewStoreKeys == {ScopedKey(view, k) : view \in Views, k \in ViewKeys} \cup {<<"a">>}

\* C9: a Set(k, v) on the view of scopes s1, ..., sn makes s1...sn.k resolve
\* to v, and every other store key resolves, and is set or not, as before.
C9_ScopedSetWritesOneEntry ==
    [][result'.op = "ViewSet"
        => LET target == ScopedKey(call'.view, call'.key)
           IN  /\ Get(conf', environ', target) = call'.val
               /\ \A q \in ViewStoreKeys \ {target} :
                     /\ Get(conf', environ', q) = Get(conf, environ, q)
                     /\ IsSet(conf', environ', q) = IsSet(conf, environ, q)]_vars

\* A Set was made through the view scoped by a and then b, while the keys
\* of the enclosing views, a.k and k, are set to other values.
C9_Witness ==
    /\ result.op = "ViewSet"
    /\ call.view = <<<<"a">>, <<"b">>>>
    /\ Get(conf, environ, ScopedKey(call.view, call.key)) = call.val
    /\ IsSet(conf, environ, <<"a", ".", "k">>)
    /\ Get(conf, environ, <<"a", ".", "k">>) # call.val
    /\ IsSet(conf, environ, <<"k">>)
    /\ Get(conf, environ, <<"k">>) # call.val

(***************************************************************************)
(* A config and its copy                                                   *)
(***************************************************************************)

\* c2 as a caller reads it: a mapping it shares with conf is the mapping as
\* conf's store holds it now.
CopyConf ==
    [copy.cfg EXCEPT !.v.override =
        [k \in DOMAIN @ |-> IF k \in copy.shared THEN conf.v.config[k] ELSE @[k]]]

\* c2 := conf.Copy().  Whether a mapping of the settings reaches c2 as the
\* map the store of conf holds or as a map of its own is the store's doing.
MakeCopy ==
    /\ ~copy.made
    /\ \E shares \in BOOLEAN :
         copy' = [made |-> TRUE,
                  cfg |-> Copy(conf, environ, registrations, files),
                  shared |-> IF shares THEN HeldMappings(conf, environ) ELSE {}]
    /\ result' = Step("Copy")
    /\ UNCHANGED <<auxVars, call, keyVars, secureKeys, registrations, files, environ, conf,
                   opts, lastSet, docProvided>>

\* The documents read into conf and into c2 after the copy was made.
CopyReaders == {NewReader(DocB), NewReader(DocS)}

\* conf.Set(k, n) after the copy was made
OriginalSet ==
    /\ copy.made
    /\ \E k \in SetKeys, n \in 1..MaxVal : conf' = Set(conf, k, IntVal(n))
    /\ result' = Step("c.Set")
    /\ UNCHANGED <<auxVars, call, copy, keyVars, secureKeys, registrations, files, environ,
                   opts, lastSet, docProvided>>

\* conf.ReadConfig(in) after the copy was made
OriginalReadConfig ==
    /\ copy.made
    /\ \E in \in CopyReaders : conf' = ReadConfig(conf, in).cfg
    /\ result' = Step("c.ReadConfig")
    /\ UNCHANGED <<auxVars, call, copy, keyVars, secureKeys, registrations, files, environ,
                   opts, lastSet, docProvided>>

\* c2.Set(k, n)
CopySet ==
    /\ copy.made
    /\ \E k \in SetKeys, n \in 1..MaxVal :
         copy' = [copy EXCEPT !.cfg = Set(@, k, IntVal(n)),
                              !.shared = @ \ {ToLower(k)}]
    /\ result' = Step("c2.Set")
    /\ UNCHANGED <<auxVars, call, keyVars, secureKeys, registrations, files, environ, conf,
                   opts, lastSet, docProvided>>

\* c2.ReadConfig(in)
CopyReadConfig ==
    /\ copy.made
    /\ \E in \in CopyReaders : copy' = [copy EXCEPT !.cfg = ReadConfig(@, in).cfg]
    /\ result' = Step("c2.ReadConfig")
    /\ UNCHANGED <<auxVars, call, keyVars, secureKeys, registrations, files, environ, conf,
                   opts, lastSet, docProvided>>

NextCopy == MakeCopy \/ OriginalSet \/ OriginalReadConfig \/ CopySet \/ CopyReadConfig

SpecCopy == InitStore /\ [][NextCopy]_vars

\* C4: once the copy is made, a Set on conf or a document merged into conf
\* leaves every key of c2 resolving as before, and a Set on c2 or a document
\* merged into c2 leaves every key of conf resolving as before.
C4_CopyIndependent ==
    [][/\ result'.op \in {"c.Set", "c.ReadConfig"}
          => \A k \in ProbeKeys :
                Get(CopyConf', environ', k) = Get(CopyConf, environ, k)
       /\ result'.op \in {"c2.Set", "c2.ReadConfig"}
          => \A k \in ProbeKeys :
                Get(conf', environ', k) = Get(conf, environ, k)]_vars

(***************************************************************************)
(* Enumerating the keys of a registration                                  *)
(***************************************************************************)

\* The number of calls of Keys() and the names of the keys declared while
\* enumerations run.
MaxEnums == 2
EnumNames == {<<"a">>, <<"B">>}

InitEnum ==
    /\ reg = newRegistration(<<"a">>)
    /\ secureKeys = {}
    /\ keyPanic = FALSE
    /\ keyArgs = << >>
    /\ IdleStore
    /\ call = NoCall
    /\ copy = NoCopy
    /\ enums = << >>
    /\ rwl = [writer |-> FALSE, readers |-> 0]
    /\ pc = << >>
    /\ local = << >>
    /\ appended = << >>
    /\ lines = << >>
    /\ before = << >>

enumFrame == <<storeVars, call, copy, rwl, pc, local, appended, lines, before>>

\* r.Key(String, "", 0, "", name), by the goroutine that owns r
EnumDeclare ==
    /\ Len(reg.keys) < MaxKeys + 1
    /\ \E name \in EnumNames :
         LET out == Key(reg, secureKeys, String, << >>, 0, << >>, <<name>>)
         IN  /\ reg' = out.reg
             /\ secureKeys' = out.secure
             /\ keyPanic' = out.panic
             /\ keyArgs' = Append(keyArgs, <<name>>)
    /\ UNCHANGED <<enumFrame, enums>>

\* r.Keys(): the channel is made, the producer goroutine is started, the
\* channel is returned.  atCall notes the keys declared at that time.
EnumCall ==
    /\ Len(enums) < MaxEnums
    /\ enums' = Append(enums, [atCall |-> reg.keys, producer |-> "go", snap |-> << >>,
                               i |-> 1, received |-> << >>, closed |-> FALSE,
                               consumer |-> "reading"])
    /\ UNCHANGED <<enumFrame, keyVars, secureKeys>>

\* The producer starts its loop: range r.keys is evaluated, once, when the
\* goroutine gets there.  The read is not ordered with an append that Key
\* makes meanwhile; it gives the slice before it or the slice after it.
ProducerRange(e) ==
    /\ enums[e].producer = "go"
    /\ enums' = [enums EXCEPT ![e].producer = "loop", ![e].snap = reg.keys]
    /\ UNCHANGED <<enumFrame, keyVars, secureKeys>>

\* c <- k meets the consumer's receive (the channel has no buffer).
Handoff(e) ==
    /\ enums[e].producer = "loop"
    /\ enums[e].i <= Len(enums[e].snap)
    /\ enums[e].consumer = "reading"
    /\ enums' = [enums EXCEPT ![e].received = Append(@, enums[e].snap[enums[e].i]),
                              ![e].i = @ + 1]
    /\ UNCHANGED <<enumFrame, keyVars, secureKeys>>

\* close(c), and the producer returns.
ProducerClose(e) ==
    /\ enums[e].producer = "loop"
    /\ enums[e].i > Len(enums[e].snap)
    /\ enums' = [enums EXCEPT ![e].producer = "done", ![e].closed = TRUE]
    /\ UNCHANGED <<enumFrame, keyVars, secureKeys>>

\* The consumer's receive finds the channel closed and its loop ends.
ConsumerEnd(e) ==
    /\ enums[e].closed
    /\ enums[e].consumer = "reading"
    /\ enums' = [enums EXCEPT ![e].consumer = "done"]
    /\ UNCHANGED <<enumFrame, keyVars, secureKeys>>

NextEnum ==
    \/ EnumDeclare
    \/ EnumCall
    \/ \E e \in 1..Len(enums) : ProducerRange(e)
    \/ \E e \in 1..Len(enums) : Handoff(e)
    \/ \E e \in 1..Len(enums) : ProducerClose(e)
    \/ \E e \in 1..Len(enums) : ConsumerEnd(e)

SpecEnum == InitEnum /\ [][NextEnum]_vars

\* C11: a consumer that has read an enumeration until close has received
\* exactly the keys declared at the time of the call of Keys(), each once
\* and in declaration order, and the producer has terminated.
C11_KeysAtCallDelivered ==
    \A e \in 1..Len(enums) :
       enums[e].consumer = "done"
          => /\ enums[e].received = enums[e].atCall
             /\ enums[e].producer = "done"

(***************************************************************************)
(* Registering while configs are built                                     *)
(***************************************************************************)

\* The goroutines: 1..MaxRegistrars each call Register once, the others
\* each build one config.
MaxRegistrars == 2
MaxBuilders == 2
Registrars == 1..MaxRegistrars
Builders == (MaxRegistrars + 1)..(MaxRegistrars + MaxBuilders)

\* The registration that goroutine p registers: its name is p runes long,
\* and it has no keys and no default document.
RegOf(p) == [newRegistration([i \in 1..p |-> "r"]) EXCEPT !.yaml = NoText]

\* sync.RWMutex: Lock waits for the writer and the readers to leave, RLock
\* for the writer.
CanLockAlways(l) == TRUE
CanLock(l) == ~l.writer /\ l.readers = 0
CanRLock(l) == ~l.writer

NoLocals == [snap |-> << >>, i |-> 1, processed |-> << >>,
             cfg |-> [v |-> viperNew, flagSets |-> EmptyMap]]

InitReg ==
    /\ IdleKey
    /\ secureKeys = {}
    /\ IdleStore
    /\ call = NoCall
    /\ copy = NoCopy
    /\ enums = << >>
    /\ rwl = [writer |-> FALSE, readers |-> 0]
    /\ pc = [p \in Registrars \cup Builders |-> "start"]
    /\ local = [p \in Registrars \cup Builders |-> NoLocals]
    /\ appended = << >>
    /\ lines = << >>
    /\ before = << >>

regFrame == <<keyVars, secureKeys, files, environ, conf, opts, result, lastSet,
              docProvided, call, copy, enums, lines, before>>

\* Register: registrationsRWL.Lock()
RegisterLock(p) ==
    /\ pc[p] = "start"
    /\ CanLock(rwl)
    /\ rwl' = [rwl EXCEPT !.writer = TRUE]
    /\ pc' = [pc EXCEPT ![p] = "read"]
    /\ UNCHANGED <<regFrame, registrations, local, appended>>

\* Register: append reads the slice ...
RegisterRead(p) ==
    /\ pc[p] = "read"
    /\ local' = [local EXCEPT ![p].snap = registrations]
    /\ pc' = [pc EXCEPT ![p] = "write"]
    /\ UNCHANGED <<regFrame, registrations, rwl, appended>>

\* ... and the slice with r at its end is assigned to registrations.
RegisterWrite(p) ==
    /\ pc[p] = "write"
    /\ registrations' = Append(local[p].snap, RegOf(p))
    /\ appended' = Append(appended, RegOf(p))
    /\ pc' = [pc EXCEPT ![p] = "unlock"]
    /\ UNCHANGED <<regFrame, rwl, local>>

\* Register returns: the deferred registrationsRWL.Unlock()
RegisterUnlock(p) ==
    /\ pc[p] = "unlock"
    /\ rwl' = [rwl EXCEPT !.writer = FALSE]
    /\ pc' = [pc EXCEPT ![p] = "done"]
    /\ UNCHANGED <<regFrame, registrations, local, appended>>

\* processRegistrations: registrationsRWL.RLock()
BuildRLock(p) ==
    /\ pc[p] = "start"
    /\ CanRLock(rwl)
    /\ rwl' = [rwl EXCEPT !.readers = @ + 1]
    /\ pc' = [pc EXCEPT ![p] = "range"]
    /\ UNCHANGED <<regFrame, registrations, local, appended>>

\* processRegistrations: range registrations is evaluated
BuildRange(p) ==
    /\ pc[p] = "range"
    /\ local' = [local EXCEPT ![p].snap = registrations]
    /\ pc' = [pc EXCEPT ![p] = "loop"]
    /\ UNCHANGED <<regFrame, registrations, rwl, appended>>

\* processRegistrations: one turn of the loop, or its end
BuildLoop(p) ==
    /\ pc[p] = "loop"
    /\ IF local[p].i <= Len(local[p].snap)
       THEN /\ local' = [local EXCEPT
                 ![p].cfg = processRegistration(@, local[p].snap[local[p].i]),
                 ![p].processed = Append(@, local[p].snap[local[p].i]),
                 ![p].i = @ + 1]
            /\ pc' = pc
       ELSE /\ pc' = [pc EXCEPT ![p] = "runlock"]
            /\ local' = local
    /\ UNCHANGED <<regFrame, registrations, rwl, appended>>

\* processRegistrations returns: the deferred registrationsRWL.RUnlock()
BuildRUnlock(p) ==
    /\ pc[p] = "runlock"
    /\ rwl' = [rwl EXCEPT !.readers = @ - 1]
    /\ pc' = [pc EXCEPT ![p] = "done"]
    /\ UNCHANGED <<regFrame, registrations, local, appended>>

NextReg ==
    \/ \E p \in Registrars : RegisterLock(p)
    \/ \E p \in Registrars : RegisterRead(p)
    \/ \E p \in Registrars : RegisterWrite(p)
    \/ \E p \in Registrars : RegisterUnlock(p)
    \/ \E p \in Builders : BuildRLock(p)
    \/ \E p \in Builders : BuildRange(p)
    \/ \E p \in Builders : BuildLoop(p)
    \/ \E p \in Builders : BuildRUnlock(p)

SpecReg == InitReg /\ [][NextReg]_vars

IsPrefix(a, b) == Len(a) <= Len(b) /\ a = SubSeq(b, 1, Len(a))

\* C12: the list holds, once each and in the order of the appends, exactly
\* the registrations whose append was made, so all N of them once N calls
\* of Register have returned; no config is built while an append is under
\* way, and what a construction has processed is a prefix of the list, in
\* list order.
C12_NoRegistrationLost ==
    /\ registrations = appended
    /\ \A p \in Registrars :
          Cardinality({i \in 1..Len(registrations) : registrations[i] = RegOf(p)})
             = IF pc[p] \in {"unlock", "done"} THEN 1 ELSE 0
    /\ Len(registrations) = Cardinality({p \in Registrars : pc[p] \in {"unlock", "done"}})
    /\ \A b \in Builders :
          /\ IsPrefix(local[b].processed, registrations)
          /\ pc[b] \in {"runlock", "done"} => local[b].processed = local[b].snap
          /\ pc[b] \in {"range", "loop", "runlock"}
                => \A p \in Registrars : pc[p] \notin {"read", "write", "unlock"}

\* Every Register call has returned, and a config was built between two
\* appends: it processed the first registration of the list only.
C12_Witness ==
    /\ \A p \in Registrars : pc[p] = "done"
    /\ Len(registrations) = MaxRegistrars
    /\ \E b \in Builders :
          /\ pc[b] = "done"
          /\ Len(local[b].processed) = 1
          /\ DOMAIN local[b].cfg.flagSets = {FlagSetName(registrations[1])}

(***************************************************************************)
(* The /etc/environment bootstrap                                          *)
(***************************************************************************)

\* The runes of a line of /etc/environment, and the bounds on a line and on
\* the file.
LineChar == {"A", "=", "#", " ", "1"}
MaxLineLen == 3
MaxLines == 1

RECURSIVE LinesUpTo(_)
LinesUpTo(n) ==
    IF n = 0 THEN {<< >>}
    ELSE LET shorter == LinesUpTo(n - 1)
         IN  shorter \cup {Append(l, ch) : l \in {t \in shorter : Len(t) = n - 1},
                                           ch \in LineChar}

IsSpace(ch) == ch = " "

\* envVarRx.FindStringSubmatch(l) for ^\s*([^#=]+?)=(.+)$: nil, or the
\* name and the value.  The name ends at the first '=', holds no '#', and
\* starts after the leading white space, of which the last rune is the name
\* when nothing else precedes the '='; the value is the rest, not empty.
FindStringSubmatch(l) ==
    LET eqs == {i \in 1..Len(l) : l[i] = "="}
        p == CHOOSE i \in eqs : \A j \in eqs : i <= j
        pre == SubSeq(l, 1, p - 1)
        val == SubSeq(l, p + 1, Len(l))
        solid == {i \in 1..Len(pre) : ~IsSpace(pre[i])}
        first == IF solid = {} THEN Len(pre)
                 ELSE CHOOSE i \in solid : \A j \in solid : i <= j
    IN  IF eqs = {} THEN [nil |-> TRUE, name |-> << >>, value |-> << >>]
        ELSE IF Len(pre) = 0 \/ Len(val) = 0 \/ \E i \in 1..Len(pre) : pre[i] = "#"
        THEN [nil |-> TRUE, name |-> << >>, value |-> << >>]
        ELSE [nil |-> FALSE, name |-> SubSeq(pre, first, Len(pre)), value |-> val]

\* os.Getenv: the value of the variable, "" when it is not set.
Getenv(env, name) == IF name \in DOMAIN env THEN env[name] ELSE << >>

\* loadEtcEnvironment's loop over the lines of the file
RECURSIVE loadLines(_, _)
loadLines(env, ls) ==
    IF Len(ls) = 0 THEN env
    ELSE LET m == FindStringSubmatch(ls[1])
         IN  IF m.nil \/ Getenv(env, m.name) # << >>
             THEN loadLines(env, Tail(ls))
             ELSE loadLines(Put(env, m.name, m.value), Tail(ls))

\* loadEtcEnvironment: file is [nil, text]; nil when there is no file.
loadEtcEnvironment(env, file) == IF file.nil THEN env ELSE loadLines(env, file.text)

\* The environments the process starts with: A not set, set to the empty
\* string, or set to "1".
StartEnvs == {EmptyMap, <<"A">> :> << >>, <<"A">> :> <<"1">>}

RECURSIVE FilesUpTo(_)
FilesUpTo(n) ==
    IF n = 0 THEN {<< >>}
    ELSE LET shorter == FilesUpTo(n - 1)
         IN  shorter \cup {Append(f, l) : f \in {t \in shorter : Len(t) = n - 1},
                                          l \in LinesUpTo(MaxLineLen)}

InitEtc ==
    /\ IdleKey
    /\ secureKeys = {}
    /\ registrations = << >>
    /\ files = [etc |-> NoText, usr |-> NoText]
    /\ conf = [v |-> viperNew, flagSets |-> EmptyMap]
    /\ opts = [loadGlobalConfig |-> FALSE, loadUserConfig |-> FALSE]
    /\ result = NoResult
    /\ lastSet = EmptyMap
    /\ docProvided = EmptyMap
    /\ call = NoCall
    /\ copy = NoCopy
    /\ enums = << >>
    /\ rwl = [writer |-> FALSE, readers |-> 0]
    /\ pc = << >>
    /\ local = << >>
    /\ appended = << >>
    /\ environ \in StartEnvs
    /\ before = environ
    /\ \/ lines = [nil |-> TRUE, text |-> << >>]
       \/ \E text \in FilesUpTo(MaxLines) : lines = [nil |-> FALSE, text |-> text]

\* init: loadEtcEnvironment()
LoadEtc ==
    /\ result.op = "none"
    /\ environ' = loadEtcEnvironment(environ, lines)
    /\ result' = Step("loadEtcEnvironment")
    /\ UNCHANGED <<keyVars, secureKeys, registrations, files, conf, opts, lastSet,
                   docProvided, call, copy, enums, rwl, pc, local, appended, lines,
                   before>>

NextEtc == LoadEtc

SpecEtc == InitEtc /\ [][NextEtc]_vars

\* C13: after loadEtcEnvironment every variable that was set before it ran,
\* also one set to the empty string, has the value it had.
C13_SetVariablesKept ==
    result.op = "loadEtcEnvironment"
       => \A name \in DOMAIN before :
             name \in DOMAIN environ /\ environ[name] = before[name]

(***************************************************************************)
(* Binding the keys of a registration (processRegKeys, in its two builds)  *)
(***************************************************************************)

\* processRegKeys of the pflag build: one turn of the loop over r.Keys().
\* A key whose flag is in the flag set already is passed over.
bindKeyPflag(cfg, fsn, k) ==
    IF k.flagName \in DOMAIN cfg.flagSets[fsn] THEN cfg
    ELSE LET c1 == vBindEnv(cfg, k.keyName, k.envVarName)
             c2 == [c1 EXCEPT !.flagSets[fsn] = Put(@, k.flagName, NewFlag(k))]
         IN  vBindPFlag(c2, k.keyName, [fs |-> fsn, name |-> k.flagName])

RECURSIVE bindKeysPflag(_, _, _)
bindKeysPflag(cfg, fsn, keys) ==
    IF Len(keys) = 0 THEN cfg
    ELSE bindKeysPflag(bindKeyPflag(cfg, fsn, keys[1]), fsn, Tail(keys))

\* processRegKeys of the pflag build
processRegKeysPflag(cfg, r) ==
    LET fsn == FlagSetName(r)
        c1 == IF fsn \in DOMAIN cfg.flagSets THEN cfg
              ELSE [cfg EXCEPT !.flagSets = Put(@, fsn, EmptyMap)]
    IN  bindKeysPflag(c1, fsn, r.keys)

\* processRegKeys of the build without pflag
RECURSIVE processRegKeysNoPflag(_, _)
processRegKeysNoPflag(cfg, keys) ==
    IF Len(keys) = 0 THEN cfg
    ELSE processRegKeysNoPflag(vBindEnv(cfg, keys[1].keyName, keys[1].envVarName),
                               Tail(keys))

\* The keys a registration declares: a key name, and a flag name of its own
\* choosing.
BindKeyNames == {<<"a">>, <<"B">>}
BindFlagNames == {<<"f">>, <<"g">>}
BindReg(n1, f1, n2, f2) ==
    LET r0 == [newRegistration(<<"r">>) EXCEPT !.yaml = NoText]
        k1 == Key(r0, {}, String, << >>, StrVal(0), << >>, <<n1, f1>>)
    IN  Key(k1.reg, k1.secure, String, << >>, StrVal(0), << >>, <<n2, f2>>).reg

\* The configs the keys are bound on: a new one, one whose flag set has the
\* flag f from an earlier binding of another key, and one on which the key
\* a is bound to another environment variable.
NewConf == [v |-> viperNew, flagSets |-> EmptyMap]
PriorKey == Key([newRegistration(<<"r">>) EXCEPT !.yaml = NoText], {}, String, << >>,
                StrVal(0), << >>, <<<<"k">>, <<"f">>>>).reg
PriorConfs ==
    {NewConf, processRegKeysPflag(NewConf, PriorKey),
     vBindEnv(NewConf, <<"a">>, <<"B">>)}

InitBind ==
    /\ IdleKey
    /\ secureKeys = {}
    /\ files = [etc |-> NoText, usr |-> NoText]
    /\ environ = EmptyMap
    /\ opts = [loadGlobalConfig |-> FALSE, loadUserConfig |-> FALSE]
    /\ result = NoResult
    /\ lastSet = EmptyMap
    /\ docProvided = EmptyMap
    /\ call = NoCall
    /\ copy = NoCopy
    /\ IdleAux
    /\ \E n1 \in BindKeyNames, n2 \in BindKeyNames,
          f1 \in BindFlagNames, f2 \in BindFlagNames :
         registrations = <<BindReg(n1, f1, n2, f2)>>
    /\ conf \in PriorConfs

bindFrame == <<auxVars, keyVars, secureKeys, registrations, files, environ, opts,
               lastSet, docProvided, call, copy>>

\* c.processRegKeys(r), built with pflag
BindKeysPflag ==
    /\ result.op = "none"
    /\ conf' = processRegKeysPflag(conf, registrations[1])
    /\ result' = Step("processRegKeys")
    /\ UNCHANGED bindFrame

\* c.processRegKeys(r), built without pflag
BindKeysNoPflag ==
    /\ result.op = "none"
    /\ conf' = processRegKeysNoPflag(conf, registrations[1].keys)
    /\ result' = Step("processRegKeys")
    /\ UNCHANGED bindFrame

NextBind == BindKeysPflag \/ BindKeysNoPflag

SpecBind == InitBind /\ [][NextBind]_vars

\* C14: after the keys of a registration have been bound, the store binds
\* the key name of every key of the registration to its environment
\* variable name, whatever was bound and whatever flags existed before.
C14_EveryKeyEnvBound ==
    result.op = "processRegKeys"
       => \A i \in 1..Len(registrations[1].keys) :
             LET k == registrations[1].keys[i] IN
             /\ ToLower(k.keyName) \in DOMAIN conf.v.env
             /\ conf.v.env[ToLower(k.keyName)] = k.envVarName

====
